---- MODULE Spec2Model ----
(***************************************************************************)
(* String case-conversion helpers: toKebabCase, toCamelCase (strict, with  *)
(* the preserveAcronyms option), toCamelCase (lenient) and toDotCase.      *)
(*                                                                         *)
(* A JavaScript string is modelled as a sequence of one-character strings, *)
(* a JavaScript value as a record [typeof, val].  Every regular expression *)
(* and string method the functions use is an operator that computes what   *)
(* the JavaScript engine computes, on the characters of the model.         *)
(***************************************************************************)
EXTENDS Naturals, Sequences, FiniteSets, TLC

VARIABLES input, call, result

vars == <<input, call, result>>

----------------------------------------------------------------------------
(* Bounds of the model *)

\* longest enumerated input string
MaxLen == 4

----------------------------------------------------------------------------
(* Characters and character classes *)

LowerLetters == <<"a","b","c","d","e","f","g","h","i","j","k","l","m",
                  "n","o","p","q","r","s","t","u","v","w","x","y","z">>

UpperLetters == <<"A","B","C","D","E","F","G","H","I","J","K","L","M",
                  "N","O","P","Q","R","S","T","U","V","W","X","Y","Z">>

\* [a-z]
az == {LowerLetters[i] : i \in DOMAIN LowerLetters}

\* [A-Z]
AZ == {UpperLetters[i] : i \in DOMAIN UpperLetters}

\* [0-9]
Digits == {"0","1","2","3","4","5","6","7","8","9"}

\* \s, and the characters String.prototype.trim removes
WhiteSpace == {" ", "\t"}

\* [\s_\-]
CamelSeparators == WhiteSpace \cup {"_", "-"}

\* [\s_\-\.]
DotSeparators == WhiteSpace \cup {"_", "-", "."}

\* [a-zA-Z0-9\s-], the characters toKebabCase keeps
KebabKept == az \cup AZ \cup Digits \cup WhiteSpace \cup {"-"}

\* non-ASCII letters of the model
NonAsciiLower == {"ä", "ß"}
NonAsciiUpper == {"Ä"}
NonAscii == NonAsciiLower \cup NonAsciiUpper

IndexOf(c, seq) == CHOOSE i \in DOMAIN seq : seq[i] = c

----------------------------------------------------------------------------
(* String methods *)

\* the lowercase mapping of one character
LowerOf(c) ==
  IF c \in AZ THEN LowerLetters[IndexOf(c, UpperLetters)]
  ELSE IF c = "Ä" THEN "ä"
  ELSE c

\* the uppercase mapping of one character: a string, since the mapping
\* of the sharp s is the two characters SS
UpperOf(c) ==
  IF c \in az THEN <<UpperLetters[IndexOf(c, LowerLetters)]>>
  ELSE IF c = "ä" THEN <<"Ä">>
  ELSE IF c = "ß" THEN <<"S", "S">>
  ELSE <<c>>

toLowerCase(s) == [i \in 1..Len(s) |-> LowerOf(s[i])]

RECURSIVE toUpperCase(_)
toUpperCase(s) ==
  IF s = <<>> THEN <<>> ELSE UpperOf(Head(s)) \o toUpperCase(Tail(s))

\* s.charAt(i), with i counted from 0
charAt(s, i) == IF i + 1 \in DOMAIN s THEN <<s[i + 1]>> ELSE <<>>

\* s.slice(i), with i counted from 0
slice(s, i) == SubSeq(s, i + 1, Len(s))

RECURSIVE trimStart(_)
trimStart(s) ==
  IF s # <<>> /\ Head(s) \in WhiteSpace THEN trimStart(Tail(s)) ELSE s

RECURSIVE trimEnd(_)
trimEnd(s) ==
  IF s # <<>> /\ s[Len(s)] \in WhiteSpace
  THEN trimEnd(SubSeq(s, 1, Len(s) - 1))
  ELSE s

trim(s) == trimEnd(trimStart(s))

\* words.join(sep)
RECURSIVE join(_, _)
join(words, sep) ==
  IF words = <<>> THEN <<>>
  ELSE IF Len(words) = 1 THEN words[1]
  ELSE words[1] \o sep \o join(Tail(words), sep)

\* filterBoolean with the filter left out
keepAllWords(words) == words

\* words.filter(Boolean): the empty string is falsy
RECURSIVE filterBoolean(_)
filterBoolean(words) ==
  IF words = <<>> THEN <<>>
  ELSE IF Head(words) = <<>> THEN filterBoolean(Tail(words))
  ELSE <<Head(words)>> \o filterBoolean(Tail(words))

\* s.split(' '): one piece per occurrence of the character
RECURSIVE splitChar(_, _)
splitChar(s, c) ==
  IF \A i \in DOMAIN s : s[i] # c THEN <<s>>
  ELSE LET i == CHOOSE k \in DOMAIN s : s[k] = c /\ \A j \in 1..(k - 1) : s[j] # c
       IN <<SubSeq(s, 1, i - 1)>> \o splitChar(SubSeq(s, i + 1, Len(s)), c)

----------------------------------------------------------------------------
(* Regular expressions *)

\* the end of the run of characters of class that starts at i
RECURSIVE runEnd(_, _, _)
runEnd(s, i, class) ==
  IF i + 1 \in DOMAIN s /\ s[i + 1] \in class THEN runEnd(s, i + 1, class) ELSE i

\* /^[class]+$/.test(s)
testOnly(s, class) == s # <<>> /\ \A i \in DOMAIN s : s[i] \in class

\* s.replace(/([left])([right])/g, '$1 $2')
RECURSIVE replacePair(_, _, _)
replacePair(s, left, right) ==
  IF Len(s) < 2 THEN s
  ELSE IF s[1] \in left /\ s[2] \in right
       THEN <<s[1], " ", s[2]>> \o replacePair(SubSeq(s, 3, Len(s)), left, right)
       ELSE <<s[1]>> \o replacePair(Tail(s), left, right)

\* s.replace(/([A-Z]+)([A-Z][a-z])/g, '$1 $2'): the greedy run gives back
\* its last capital, which must be the one before a lowercase letter
RECURSIVE replaceAcronym(_)
replaceAcronym(s) ==
  IF Len(s) < 3 THEN s
  ELSE IF s[1] \in AZ
       THEN LET e == runEnd(s, 1, AZ)
            IN IF e > 1 /\ e + 1 \in DOMAIN s /\ s[e + 1] \in az
               THEN SubSeq(s, 1, e - 1) \o <<" ">> \o <<s[e], s[e + 1]>>
                      \o replaceAcronym(SubSeq(s, e + 2, Len(s)))
               ELSE SubSeq(s, 1, e) \o replaceAcronym(SubSeq(s, e + 1, Len(s)))
       ELSE <<s[1]>> \o replaceAcronym(Tail(s))

\* s.replace(/[class]/g, by)
RECURSIVE replaceEach(_, _, _)
replaceEach(s, class, by) ==
  IF s = <<>> THEN <<>>
  ELSE (IF Head(s) \in class THEN by ELSE <<Head(s)>>)
         \o replaceEach(Tail(s), class, by)

\* replaceRuns without the g flag: only the first run is replaced
RECURSIVE replaceFirstRun(_, _, _)
replaceFirstRun(s, class, by) ==
  IF s = <<>> THEN <<>>
  ELSE IF Head(s) \in class
       THEN by \o SubSeq(s, runEnd(s, 1, class) + 1, Len(s))
       ELSE <<Head(s)>> \o replaceFirstRun(Tail(s), class, by)

\* s.replace(/[class]+/g, by)
RECURSIVE replaceRuns(_, _, _)
replaceRuns(s, class, by) ==
  IF s = <<>> THEN <<>>
  ELSE IF Head(s) \in class
       THEN by \o replaceRuns(SubSeq(s, runEnd(s, 1, class) + 1, Len(s)), class, by)
       ELSE <<Head(s)>> \o replaceRuns(Tail(s), class, by)

\* s.split(/[class]+/)
RECURSIVE splitRuns(_, _)
splitRuns(s, class) ==
  IF \A i \in DOMAIN s : s[i] \notin class THEN <<s>>
  ELSE LET i == CHOOSE k \in DOMAIN s :
                  s[k] \in class /\ \A j \in 1..(k - 1) : s[j] \notin class
       IN <<SubSeq(s, 1, i - 1)>>
            \o splitRuns(SubSeq(s, runEnd(s, i, class) + 1, Len(s)), class)

\* s.replace(/[^kept]/g, '')
RECURSIVE removeNot(_, _)
removeNot(s, kept) ==
  IF s = <<>> THEN <<>>
  ELSE (IF Head(s) \in kept THEN <<Head(s)>> ELSE <<>>) \o removeNot(Tail(s), kept)

----------------------------------------------------------------------------
(* Values and outcomes of a call *)

\* a JavaScript string value
Str(s) == [typeof |-> "string", val |-> s]

\* a call that returned the string s
Return(s) == [kind |-> "return", value |-> s]

\* ThrowTypeError as the lenient policy: return '' where the code throws
ReturnEmptyString == Return(<<>>)

\* a call that threw: throw new TypeError('Input must be a string.')
ThrowTypeError == [kind |-> "throw", error |-> "TypeError"]

\* options = {} when the argument is left out
DefaultOptions == [k \in {} |-> FALSE]

\* const { preserveAcronyms = false } = options
preserveAcronymsOf(options) ==
  IF "preserveAcronyms" \in DOMAIN options THEN options.preserveAcronyms ELSE FALSE

----------------------------------------------------------------------------
(* toKebabCase *)

toKebabCase(v) ==
  IF v.typeof # "string" THEN Return(<<>>)
  ELSE IF trim(v.val) = <<>> THEN Return(<<>>)
  ELSE LET str0  == trim(v.val)
           str1  == replacePair(str0, az \cup Digits, AZ)
           str2  == replaceEach(str1, {"_"}, <<" ">>)
           str3  == removeNot(str2, KebabKept)
           str4  == replaceRuns(str3, CamelSeparators, <<" ">>)
           words == filterBoolean(splitChar(str4, " "))
       IN IF Len(words) = 0 THEN Return(<<>>)
          ELSE Return(toLowerCase(join(words, <<"-">>)))

----------------------------------------------------------------------------
(* toCamelCase, the strict variant with options *)

\* splitCamel: further split words that are camelCased together
splitCamel(word) ==
  splitChar(replacePair(replaceAcronym(word), az \cup Digits, AZ), " ")

\* the non-empty sub-words of the non-empty words, in order
RECURSIVE collectWords(_)
collectWords(words) ==
  IF words = <<>> THEN <<>>
  ELSE (IF Head(words) = <<>> THEN <<>> ELSE filterBoolean(splitCamel(Head(words))))
         \o collectWords(Tail(words))

\* lower.charAt(0).toUpperCase() + lower.slice(1)
capitalize(lower) == toUpperCase(charAt(lower, 0)) \o slice(lower, 1)

\* camelWord without the lowercasing of the rest of a later word
camelWordKeepRest(word, i, preserveAcronyms) ==
  IF i = 0 THEN toLowerCase(word)
  ELSE toUpperCase(charAt(word, 0)) \o slice(word, 1)

\* the callback of resultWords.map: word at index i (from 0)
camelWord(word, i, preserveAcronyms) ==
  IF preserveAcronyms /\ testOnly(word, AZ \cup Digits) /\ Len(word) > 1
  THEN IF i = 0 THEN toLowerCase(word) ELSE word
  ELSE LET lower == toLowerCase(word)
       IN IF i = 0 THEN lower ELSE capitalize(lower)

toCamelCase(v, options) ==
  LET preserveAcronyms == preserveAcronymsOf(options)
  IN IF v.typeof # "string" THEN ThrowTypeError
     ELSE LET str == trim(v.val)
          IN IF str = <<>> \/ testOnly(str, CamelSeparators) THEN Return(<<>>)
             ELSE LET words == splitRuns(replacePair(str, az, AZ), CamelSeparators)
                      resultWords == collectWords(words)
                  IN IF Len(resultWords) = 0 THEN Return(<<>>)
                     ELSE Return(join([i \in 1..Len(resultWords) |->
                                         camelWord(resultWords[i], i - 1, preserveAcronyms)],
                                      <<>>))

----------------------------------------------------------------------------
(* toCamelCase, the lenient variant *)

\* the loop from i = 1: capitalize each non-empty word except the first
capitalizeRest(words) ==
  [i \in 1..Len(words) |->
     IF i > 1 /\ Len(words[i]) > 0
     THEN toUpperCase(<<words[i][1]>>) \o slice(words[i], 1)
     ELSE words[i]]

toCamelCaseLenient(v) ==
  IF v.typeof # "string" THEN Return(<<>>)
  ELSE LET str0  == toLowerCase(trim(v.val))
           str1  == replaceRuns(str0, CamelSeparators, <<" ">>)
           words == splitChar(str1, " ")
       IN Return(join(capitalizeRest(words), <<>>))

----------------------------------------------------------------------------
(* toDotCase *)

toDotCase(v) ==
  IF v.typeof # "string" THEN ThrowTypeError
  ELSE LET str == trim(v.val)
       IN IF str = <<>> \/ testOnly(str, DotSeparators) THEN Return(<<>>)
          ELSE LET str1  == replaceAcronym(replacePair(str, az, AZ))
                   str2  == replaceRuns(str1, DotSeparators, <<" ">>)
                   words == filterBoolean(splitChar(str2, " "))
               IN Return(join([i \in 1..Len(words) |-> toLowerCase(words[i])],
                              <<".">>))

----------------------------------------------------------------------------
(* Inputs *)

\* the characters input strings are enumerated over: one of each class the
\* regular expressions and the case mappings tell apart
Sigma == {"a", "A", "1", " ", "\t", "_", "-", ".", "!", "ä", "Ä", "ß"}

\* the strings over Sigma of length at most n
RECURSIVE StringsUpTo(_)
StringsUpTo(n) ==
  IF n = 0 THEN {<<>>}
  ELSE LET shorter == StringsUpTo(n - 1)
       IN shorter \cup {Append(s, c) : s \in shorter, c \in Sigma}

\* "  first_name  "
ExFirstName ==
  <<" ", " ", "f", "i", "r", "s", "t", "_", "n", "a", "m", "e", " ", " ">>

\* "user--id"
ExUserId ==
  <<"u", "s", "e", "r", "-", "-", "i", "d">>

\* "SCREEN_NAME"
ExScreenName ==
  <<"S", "C", "R", "E", "E", "N", "_", "N", "A", "M", "E">>

\* "mobile-number"
ExMobileNumber ==
  <<"m", "o", "b", "i", "l", "e", "-", "n", "u", "m", "b", "e", "r">>

\* "myHTTPServer"
ExMyHTTPServer ==
  <<"m", "y", "H", "T", "T", "P", "S", "e", "r", "v", "e", "r">>

\* "FOO_BAR"
ExFooBar ==
  <<"F", "O", "O", "_", "B", "A", "R">>

\* "  ---___   "
ExOnlySeparators ==
  <<" ", " ", "-", "-", "-", "_", "_", "_", " ", " ", " ">>

\* "straße mit ß und ä"
ExStrasse ==
  <<"s", "t", "r", "a", "ß", "e", " ", "m", "i", "t", " ", "ß", " ", "u", "n", "d", " ", "ä">>

\* "Hello World"
ExHelloWorld ==
  <<"H", "e", "l", "l", "o", " ", "W", "o", "r", "l", "d">>

\* "camelCaseExample"
ExCamelCaseExample ==
  <<"c", "a", "m", "e", "l", "C", "a", "s", "e", "E", "x", "a", "m", "p", "l", "e">>

\* "Already--kebab--case"
ExAlreadyKebab ==
  <<"A", "l", "r", "e", "a", "d", "y", "-", "-", "k", "e", "b", "a", "b", "-", "-", "c", "a", "s", "e">>

\* "Special!@# Chars$$$"
ExSpecialChars ==
  <<"S", "p", "e", "c", "i", "a", "l", "!", "@", "#", " ", "C", "h", "a", "r", "s", "$", "$", "$">>

\* "___---___"
ExUnderscores ==
  <<"_", "_", "_", "-", "-", "-", "_", "_", "_">>

\* the inputs of the example calls in the sources
Examples ==
  {ExFirstName,
   ExUserId,
   ExScreenName,
   ExMobileNumber,
   ExMyHTTPServer,
   ExFooBar,
   ExOnlySeparators,
   ExStrasse,
   ExHelloWorld,
   ExCamelCaseExample,
   ExAlreadyKebab,
   ExSpecialChars,
   ExUnderscores}

TextInputs == {Str(s) : s \in StringsUpTo(MaxLen) \cup Examples}

\* values that are not strings: null, undefined, 42, {} and true, each with
\* what typeof gives for it and its source text
NonTextInputs ==
  {[typeof |-> "object",    val |-> <<"n", "u", "l", "l">>],
   [typeof |-> "undefined", val |-> <<"u", "n", "d", "e", "f", "i", "n", "e", "d">>],
   [typeof |-> "number",    val |-> <<"4", "2">>],
   [typeof |-> "object",    val |-> <<"{", "}">>],
   [typeof |-> "boolean",   val |-> <<"t", "r", "u", "e">>]}

Inputs == TextInputs \cup NonTextInputs

\* the options argument: left out, or an object that sets preserveAcronyms
OptionValues ==
  {DefaultOptions, [preserveAcronyms |-> FALSE], [preserveAcronyms |-> TRUE]}

----------------------------------------------------------------------------
(* The state machine: a value is passed to one of the functions, which    *)
(* returns a string or throws.                                             *)

NoCall == [fn |-> "none", options |-> DefaultOptions]

NoResult == [kind |-> "none"]

Init ==
  /\ input \in Inputs
  /\ call = NoCall
  /\ result = NoResult

CallToKebabCase ==
  /\ call = NoCall
  /\ call' = [fn |-> "toKebabCase", options |-> DefaultOptions]
  /\ result' = toKebabCase(input)
  /\ UNCHANGED input

CallToCamelCase ==
  /\ call = NoCall
  /\ \E options \in OptionValues :
       /\ call' = [fn |-> "toCamelCase", options |-> options]
       /\ result' = toCamelCase(input, options)
  /\ UNCHANGED input

CallToCamelCaseLenient ==
  /\ call = NoCall
  /\ call' = [fn |-> "toCamelCaseLenient", options |-> DefaultOptions]
  /\ result' = toCamelCaseLenient(input)
  /\ UNCHANGED input

CallToDotCase ==
  /\ call = NoCall
  /\ call' = [fn |-> "toDotCase", options |-> DefaultOptions]
  /\ result' = toDotCase(input)
  /\ UNCHANGED input

Next ==
  \/ CallToKebabCase
  \/ CallToCamelCase
  \/ CallToCamelCaseLenient
  \/ CallToDotCase

Spec == Init /\ [][Next]_vars

----------------------------------------------------------------------------
(* Properties *)

IsText == input.typeof = "string"

Called(fn) == call.fn = fn

Alnum == az \cup AZ \cup Digits

UpperCaseChars == AZ \cup NonAsciiUpper

\* non-alphanumeric punctuation
Punctuation == {"!", "@", "#", "$"}

\* C1: on an input that is not a string, toKebabCase and the lenient
\* toCamelCase return the empty string, while the strict toCamelCase (with
\* any options) and toDotCase throw a TypeError and return nothing.
C1_NonTextPolicy ==
  (call # NoCall /\ ~IsText) =>
    IF call.fn \in {"toKebabCase", "toCamelCaseLenient"}
    THEN result.kind = "return" /\ result.value = <<>>
    ELSE result.kind = "throw" /\ result.error = "TypeError"

C1_Witness ==
  /\ Called("toCamelCase")
  /\ preserveAcronymsOf(call.options)
  /\ input.typeof = "object"
  /\ result.kind = "throw"

\* C2: every variant returns the empty string on a string that is empty,
\* made only of whitespace and separators (space, underscore, hyphen, dot),
\* or made only of punctuation.
C2_EmptyForSeparatorsOrPunctuation ==
  (/\ call # NoCall
   /\ IsText
   /\ \/ input.val = <<>>
      \/ testOnly(input.val, DotSeparators)
      \/ testOnly(input.val, Punctuation)) =>
    (result.kind = "return" /\ result.value = <<>>)

\* C3: toKebabCase, toDotCase and the lenient toCamelCase are idempotent:
\* applied to the string it returned, each returns that string again.
C3_Idempotent ==
  (call # NoCall /\ IsText) =>
    /\ Called("toKebabCase") => toKebabCase(Str(result.value)) = result
    /\ Called("toDotCase") => toDotCase(Str(result.value)) = result
    /\ Called("toCamelCaseLenient") =>
         toCamelCaseLenient(Str(result.value)) = result

\* C4: on a string, no output holds a whitespace character or an
\* underscore, and the outputs of toKebabCase and toDotCase hold no
\* uppercase character.
C4_NoWhitespaceUnderscoreUppercase ==
  (call # NoCall /\ IsText) =>
    /\ result.kind = "return"
    /\ \A i \in DOMAIN result.value :
         /\ result.value[i] \notin WhiteSpace \cup {"_"}
         /\ call.fn \in {"toKebabCase", "toDotCase"} =>
              result.value[i] \notin UpperCaseChars

C4_Witness ==
  /\ Called("toDotCase")
  /\ input = Str(<<"A", "\t", "_">>)
  /\ result = Return(<<"a">>)

\* C5: with preserveAcronyms set, the strict toCamelCase turns "FOO_BAR"
\* into "FOOBar".
C5_FooBarPreserved ==
  (/\ Called("toCamelCase")
   /\ preserveAcronymsOf(call.options)
   /\ input = Str(ExFooBar)) =>
    result = Return(<<"F", "O", "O", "B", "a", "r">>)

\* a token boundary lies between s[i] and s[i + 1]: a lowercase letter or a
\* digit before a capital, or a capital before a capital that a lowercase
\* letter follows
IsBoundary(s, i) ==
  \/ s[i] \in az \cup Digits /\ s[i + 1] \in AZ
  \/ /\ s[i] \in AZ /\ s[i + 1] \in AZ
     /\ i + 2 \in DOMAIN s /\ s[i + 2] \in az

\* the tokens of s: the runs of characters that are no separators, cut at
\* the boundaries
RECURSIVE TokensFrom(_, _, _)
TokensFrom(s, i, cur) ==
  LET done == IF cur = <<>> THEN <<>> ELSE <<cur>>
  IN IF i > Len(s) THEN done
     ELSE IF s[i] \in CamelSeparators THEN done \o TokensFrom(s, i + 1, <<>>)
     ELSE IF i < Len(s) /\ IsBoundary(s, i)
          THEN <<Append(cur, s[i])>> \o TokensFrom(s, i + 1, <<>>)
          ELSE TokensFrom(s, i + 1, Append(cur, s[i]))

Tokens(s) == TokensFrom(s, 1, <<>>)

\* the first token lowercased; of every later token the first character
\* uppercased and the others lowercased; nothing in between
RECURSIVE CamelOf(_, _)
CamelOf(tokens, first) ==
  IF tokens = <<>> THEN <<>>
  ELSE LET w == Head(tokens)
       IN (IF first THEN toLowerCase(w)
           ELSE UpperOf(w[1]) \o toLowerCase(Tail(w)))
            \o CamelOf(Tail(tokens), FALSE)

\* C6: with the default options the strict toCamelCase returns, for every
\* string, its tokens (split at separators, camelCase boundaries and acronym
\* boundaries) joined with no separator, every token after the first with
\* its first character uppercased and the others lowercased; "myHTTPServer"
\* gives "myHttpServer" and "SCREEN_NAME" gives "screenName".
C6_StrictCamelDefault ==
  (/\ Called("toCamelCase")
   /\ ~preserveAcronymsOf(call.options)
   /\ IsText) =>
    /\ result = Return(CamelOf(Tokens(input.val), TRUE))
    /\ input.val = ExMyHTTPServer => result.value = <<"m", "y", "H", "t", "t", "p", "S", "e", "r", "v", "e", "r">>
    /\ input.val = ExScreenName => result.value = <<"s", "c", "r", "e", "e", "n", "N", "a", "m", "e">>

C6_Witness ==
  /\ Called("toCamelCase")
  /\ call.options = DefaultOptions
  /\ input = Str(ExMyHTTPServer)
  /\ result = Return(<<"m", "y", "H", "t", "t", "p", "S", "e", "r", "v", "e", "r">>)

\* s neither starts nor ends with sep, and holds no two sep in a row
WellSeparated(s, sep) ==
  /\ s # <<>> => s[1] # sep /\ s[Len(s)] # sep
  /\ \A i \in 1..(Len(s) - 1) : ~(s[i] = sep /\ s[i + 1] = sep)

\* s is two alphanumeric characters with a run of separators in between
IsTwoWords(s, separators) ==
  /\ Len(s) >= 3
  /\ s[1] \in Alnum
  /\ s[Len(s)] \in Alnum
  /\ \A i \in 2..(Len(s) - 1) : s[i] \in separators

\* C7: the output of toKebabCase never starts or ends with a hyphen nor
\* holds two hyphens in a row, and likewise the output of toDotCase with
\* dots; a run of mixed separators between two words gives one separator,
\* and "Already--kebab--case" gives "already-kebab-case".
C7_SeparatorsCollapsed ==
  /\ (Called("toKebabCase") /\ IsText) =>
       /\ result.kind = "return"
       /\ WellSeparated(result.value, "-")
       /\ IsTwoWords(input.val, CamelSeparators) =>
            result.value =
              <<LowerOf(input.val[1]), "-", LowerOf(input.val[Len(input.val)])>>
       /\ input.val = ExAlreadyKebab =>
            result.value = <<"a", "l", "r", "e", "a", "d", "y", "-", "k", "e", "b", "a", "b", "-", "c", "a", "s", "e">>
  /\ (Called("toDotCase") /\ IsText) =>
       /\ result.kind = "return"
       /\ WellSeparated(result.value, ".")
       /\ IsTwoWords(input.val, DotSeparators) =>
            result.value =
              <<LowerOf(input.val[1]), ".", LowerOf(input.val[Len(input.val)])>>

C7_Witness ==
  /\ Called("toKebabCase")
  /\ input = Str(ExAlreadyKebab)
  /\ result = Return(<<"a", "l", "r", "e", "a", "d", "y", "-", "k", "e", "b", "a", "b", "-", "c", "a", "s", "e">>)

\* C8: on a string, the output of either toCamelCase never begins with an
\* uppercase letter.
C8_FirstTokenLowercased ==
  (/\ call.fn \in {"toCamelCase", "toCamelCaseLenient"}
   /\ IsText
   /\ result.kind = "return"
   /\ result.value # <<>>) =>
    result.value[1] \notin UpperCaseChars

\* C9: on a string of ASCII letters, digits, spaces, underscores and
\* hyphens, the output of toDotCase with every dot replaced by a hyphen is
\* the output of toKebabCase.
C9_DotIsKebabWithDots ==
  (/\ Called("toDotCase")
   /\ IsText
   /\ \A i \in DOMAIN input.val : input.val[i] \in Alnum \cup {" ", "_", "-"}) =>
    /\ result.kind = "return"
    /\ replaceEach(result.value, {"."}, <<"-">>) = toKebabCase(input).value

\* the characters the case mappings turn c into
CaseVariants(c) ==
  {c, LowerOf(c)} \cup {UpperOf(c)[i] : i \in DOMAIN UpperOf(c)}

\* C10: every non-ASCII letter of an input string appears in the output of
\* every variant, case-mapped at most; the strict toCamelCase turns
\* "straße mit ß und ä" into "straßeMitßUndÄ".
C10_NonAsciiKept ==
  (call # NoCall /\ IsText) =>
    /\ result.kind = "return"
    /\ \A i \in DOMAIN input.val :
         input.val[i] \in NonAscii =>
           \E j \in DOMAIN result.value :
             result.value[j] \in CaseVariants(input.val[i])
    /\ (Called("toCamelCase") /\ input.val = ExStrasse) =>
         result.value = <<"s", "t", "r", "a", "ß", "e", "M", "i", "t", "ß", "U", "n", "d", "Ä">>

====
